---- MODULE Spec2Model ----
(***************************************************************************)
(* A model of pyGPs/Core/lik.py: the likelihood classes Gauss, Erf,        *)
(* Logistic and Laplace and their proceed() entry point (the spec's        *)
(* evaluate(y, mu, s2, inference_mode, hyper_index, result_width)).        *)
(*                                                                         *)
(* The module is Python 2 source written against the numpy of 2013, where  *)
(* `ndarray == None` is the scalar False; the model follows that reading.  *)
(*                                                                         *)
(* Numbers.  The caller's sequences hold integers.  A floating point       *)
(* result is kept as the expression that computed it: a term               *)
(* [f |-> skeleton, a |-> integer leaves].  Two terms are equal exactly    *)
(* when the code evaluated the same expression on the same operands.       *)
(* Integer sub-expressions (y-mu, sn2+s2, y*f) are evaluated exactly.      *)
(*                                                                         *)
(* Arrays.  [t |-> "arr", sh |-> shape, v |-> elements in row-major        *)
(* order]; shape <<>> is a scalar, <<k>> a 1-d array, <<r, c>> a matrix.    *)
(* The caller passes column vectors (n,1), the convention of pyGPs.        *)
(***************************************************************************)
EXTENDS Integers, Sequences, FiniteSets, TLC

VARIABLES lik, hyp, hyp0, args, mem, out, stack

vars == <<lik, hyp, hyp0, args, mem, out, stack>>

(***************************************************************************)
(* Bounds of the model.                                                    *)
(***************************************************************************)
MaxLen == 2

(***************************************************************************)
(* Python values.                                                          *)
(***************************************************************************)
None == [t |-> "None", sh |-> <<>>, v |-> <<>>]

Arr(sh, v) == [t |-> "arr", sh |-> sh, v |-> v]

Scalar(x) == Arr(<<>>, <<x>>)

Col(v) == Arr(<<Len(v), 1>>, v)

IsNone(x) == x.t = "None"

T(f, a) == [f |-> f, a |-> a]

Val(x) == T("val", <<x>>)

Wrap(g, t) == T(g \o "(" \o t.f \o ")", t.a)

Wrap2(g, t1, t2) == T(g \o "(" \o t1.f \o "," \o t2.f \o ")", t1.a \o t2.a)

(***************************************************************************)
(* Outcomes of a call: a returned tuple of arrays (`return lp` is the      *)
(* one-element case, `return []` the empty one), the implicit `return      *)
(* None` of a function body that falls off its end, or a raised exception. *)
(***************************************************************************)
Ret(items) == [k |-> "ret", exc |-> "", val |-> items]

RetNone == [k |-> "none", exc |-> "", val |-> <<>>]

Raise(e) == [k |-> "raise", exc |-> e, val |-> <<>>]

Take(s, n) == SubSeq(s, 1, IF n < Len(s) THEN n ELSE Len(s))

\* the value of an expression evaluated once and then named, as an assignment
\* `a = l.proceed(...)` does: TheOne({F(a) : a \in {e}}) is F of the value of e
TheOne(S) == CHOOSE x \in S : TRUE

(***************************************************************************)
(* numpy broadcasting of elementwise operations.                           *)
(***************************************************************************)
RowsOf(sh) == IF Len(sh) = 2 THEN sh[1] ELSE 1

ColsOf(sh) == IF Len(sh) = 2 THEN sh[2] ELSE IF Len(sh) = 1 THEN sh[1] ELSE 1

BcDim(m, n) == IF m = n THEN m ELSE IF m = 1 THEN n ELSE IF n = 1 THEN m ELSE 0

BcOK(a, b) ==
    /\ BcDim(RowsOf(a.sh), RowsOf(b.sh)) > 0
    /\ BcDim(ColsOf(a.sh), ColsOf(b.sh)) > 0

BcShape(sa, sb) ==
    LET r == BcDim(RowsOf(sa), RowsOf(sb))
        c == BcDim(ColsOf(sa), ColsOf(sb))
        rank == IF Len(sa) > Len(sb) THEN Len(sa) ELSE Len(sb)
    IN  IF rank = 2 THEN <<r, c>> ELSE IF rank = 1 THEN <<c>> ELSE <<>>

Elem(a, i, j) ==
    LET r == RowsOf(a.sh)
        c == ColsOf(a.sh)
    IN  a.v[((IF r = 1 THEN 1 ELSE i) - 1) * c + (IF c = 1 THEN 1 ELSE j)]

Map2(Op(_, _), a, b) ==
    LET sh == BcShape(a.sh, b.sh)
        r == RowsOf(sh)
        c == ColsOf(sh)
    IN  Arr(sh, [k \in 1..(r * c) |->
                   Op(Elem(a, ((k - 1) \div c) + 1, ((k - 1) % c) + 1),
                      Elem(b, ((k - 1) \div c) + 1, ((k - 1) % c) + 1))])

Map1(Op(_), a) == Arr(a.sh, [k \in 1..Len(a.v) |-> Op(a.v[k])])

ZerosLike(a) == Map1(LAMBDA x: 0, a)

Sub(a, b) == Map2(LAMBDA x, z: x - z, a, b)

Mul(a, b) == Map2(LAMBDA x, z: x * z, a, b)

Add(a, b) == Map2(LAMBDA x, z: x + z, a, b)

AsVals(a) == Map1(Val, a)

\* np.linalg.norm(s2) > 0
NormPositive(a) == \E k \in 1..Len(a.v) : a.v[k] # 0

(***************************************************************************)
(* Hyperparameters live in log space.  A log-space value is kept as        *)
(* ln(lnOf)/over, so that exp(k*h) is the integer lnOf^(k/over).           *)
(***************************************************************************)
LogVal(v, d) == [lnOf |-> v, over |-> d]

ISqrt(v) == CHOOSE r \in 0..v : r * r = v

\* np.exp(k * h) for a log-space value h
ExpTimes(k, h) == IF k = h.over THEN h.lnOf ELSE ISqrt(h.lnOf)

(***************************************************************************)
(* class Gauss.  sn2 is an array: the scalar exp(2*hyp[0]) of an instance  *)
(* built from one number, or the 1-d array that Laplace.proceed builds the *)
(* instance with.                                                          *)
(***************************************************************************)
GaussLogPdf(d, V) == T("-A/V/2-log(2*pi*V)/2", <<d * d, V>>)

GaussD1(d, V) == T("d/V", <<d, V>>)

GaussD2(V) == T("-1/V", <<V>>)

GaussEP(sn2, y, mu, s2, der, nargout) ==
    IF IsNone(y) THEN Raise("TypeError")
    ELSE IF ~BcOK(y, mu) THEN Raise("ValueError")
    ELSE IF IsNone(s2) THEN Raise("TypeError")
    ELSE IF ~BcOK(sn2, s2) THEN Raise("ValueError")
    ELSE
      LET d == Sub(y, mu)
          V == Add(sn2, s2)
      IN  IF ~BcOK(d, V) THEN Raise("ValueError")
          ELSE IF der = "None"
          THEN LET lZ == Map2(GaussLogPdf, d, V)
                   dlZ == Map2(GaussD1, d, V)
                   d2lZ == Map1(GaussD2, V)
               IN  IF nargout > 2 THEN Ret(<<lZ, dlZ, d2lZ>>)
                   ELSE IF nargout > 1 THEN Ret(<<lZ, dlZ>>)
                   ELSE Ret(<<lZ>>)
          ELSE LET R == Map2(LAMBDA s, n: <<s, n>>, s2, sn2)
               IN  IF ~BcOK(d, R) THEN Raise("ValueError")
                   ELSE Ret(<<Map2(LAMBDA dv, r:
                                     T("(A/(sn2+s2)-1)/(1+s2/sn2)",
                                       <<dv * dv, r[1], r[2]>>), d, R)>>)

GaussLaplace(sn2, y, mu, der, nargout) ==
    IF der = "None"
    THEN LET y0 == IF IsNone(y) THEN Scalar(0) ELSE y
         IN  IF ~BcOK(y0, mu) THEN Raise("ValueError")
             ELSE LET ymmu == Sub(y0, mu)
                  IN  IF ~BcOK(ymmu, sn2) THEN Raise("ValueError")
                      ELSE LET lp == Map2(GaussLogPdf, ymmu, sn2)
                               dlp == Map2(GaussD1, ymmu, sn2)
                               d2lp == Map2(LAMBDA o, V: GaussD2(V), ymmu, sn2)
                               d3lp == Map1(LAMBDA x: Val(0), ymmu)
                           IN  IF nargout > 3 THEN Ret(<<lp, dlp, d2lp, d3lp>>)
                               ELSE IF nargout > 2 THEN Ret(<<lp, dlp, d2lp>>)
                               ELSE IF nargout > 1 THEN Ret(<<lp, dlp>>)
                               ELSE Ret(<<lp>>)
    ELSE IF IsNone(y) THEN Raise("TypeError")
    ELSE IF ~BcOK(y, mu) THEN Raise("ValueError")
    ELSE LET ymmu == Sub(y, mu)
         IN  IF ~BcOK(ymmu, sn2) \/ ~BcOK(mu, sn2) THEN Raise("ValueError")
             ELSE Ret(<<Map2(LAMBDA d, V: T("A/V-1", <<d * d, V>>), ymmu, sn2),
                        Map2(LAMBDA d, V: T("2*d/V", <<-d, V>>), ymmu, sn2),
                        Map2(LAMBDA o, V: T("2/V", <<V>>), mu, sn2)>>)

\* the moments of prediction mode, given the outcome `first` of its lp
GaussMoments(first, sn2, mu, s2, nargout) ==
    LET s2zero == IsNone(s2) \/ ~NormPositive(s2)
        \* s2 = np.zeros_like(s2) on the exact branch; of None, a 0-d array
        s2b == IF ~s2zero THEN s2
               ELSE IF IsNone(s2) THEN Scalar(0) ELSE ZerosLike(s2)
    IN  IF first.k = "raise" THEN first
        ELSE IF nargout > 2
        THEN IF ~BcOK(s2b, sn2) THEN Raise("ValueError")
             ELSE Ret(<<first.val[1], AsVals(mu), AsVals(Add(s2b, sn2))>>)
        ELSE IF nargout > 1 THEN Ret(<<first.val[1], AsVals(mu)>>)
        ELSE Ret(<<first.val[1]>>)

GaussPredict(sn2, y, mu, s2, nargout) ==
    LET y0 == IF IsNone(y) THEN ZerosLike(mu) ELSE y
        s2zero == IsNone(s2) \/ ~NormPositive(s2)
    IN  TheOne({GaussMoments(first, sn2, mu, s2, nargout) : first \in
            {IF s2zero
             THEN IF ~BcOK(y0, mu) THEN Raise("ValueError")
                  ELSE IF ~BcOK(Sub(y0, mu), sn2) THEN Raise("ValueError")
                  ELSE Ret(<<Map2(GaussLogPdf, Sub(y0, mu), sn2)>>)
             ELSE GaussEP(sn2, y0, mu, s2, "None", 1)}})

GaussCore(sn2, y, mu, s2, inffunc, der, nargout) ==
    IF inffunc = "None" THEN GaussPredict(sn2, y, mu, s2, nargout)
    ELSE IF inffunc = "EP" THEN GaussEP(sn2, y, mu, s2, der, nargout)
    ELSE IF inffunc = "Laplace" THEN GaussLaplace(sn2, y, mu, der, nargout)
    ELSE RetNone

GaussProceed(h, y, mu, s2, inffunc, der, nargout) ==
    GaussCore(Scalar(ExpTimes(2, h[1])), y, mu, s2, inffunc, der, nargout)

(***************************************************************************)
(* class Erf.  Its latent arguments are kept as scaled numbers <<x, j>>:   *)
(* x*lam_j for a mean and x*lam_j^2 for a variance, where lam_0 = 1 is a    *)
(* direct call and lam_1..lam_5 are the probit scales Logistic.proceed     *)
(* multiplies its arguments with.  The argument of the cumulative Gaussian *)
(* is z = y*mu*lam_j/sqrt(1+s2*lam_j^2), kept as the leaf <<y*mu, s2, j>>.  *)
(***************************************************************************)
\* 10^4 * lam_j^2, lam = sqrt(2)*[0.44, 0.41, 0.40, 0.39, 0.36]
LamSq(j) == IF j = 0 THEN 10000 ELSE <<3872, 3362, 3200, 3042, 2592>>[j]

Sc(x) == <<x, 0>>

\* z < c/10 and z > c/10 for a negative threshold c/10, in exact arithmetic:
\* z^2 = L*x^2/(10^4 + L*s) against c^2/100, without leaving 32 bits
ZExcess(z, c) == 100 * LamSq(z[3]) * z[1] * z[1] - c * c * 10000

ZBelow(z, c) ==
    /\ z[1] < 0
    /\ ZExcess(z, c) > 0
    /\ z[2] <= (ZExcess(z, c) - 1) \div (c * c * LamSq(z[3]))

ZAbove(z, c) ==
    \/ z[1] >= 0
    \/ ZExcess(z, c) < 0
    \/ z[2] > ZExcess(z, c) \div (c * c * LamSq(z[3]))

SignOf(x) == IF x > 0 THEN 1 ELSE IF x < 0 THEN -1 ELSE 0

\* a normalisation that writes `y[y==0] = 1` through the caller's array
ErfLabelsInPlace(y) ==
    [local |-> Map1(LAMBDA x: IF SignOf(x) = 0 THEN 1 ELSE SignOf(x), y),
     caller |-> Map1(LAMBDA x: IF x = 0 THEN 1 ELSE x, y)]

\* a normalisation that stops at np.sign(y) and keeps the label 0
ErfLabelsKeepZero(y) == [local |-> Map1(SignOf, y), caller |-> y]

\* the labels after `y = np.sign(y); y[y==0] = 1`: np.sign allocates, the
\* assignment writes the new array, the caller's array is left as it was
ErfLabels(y) ==
    [local |-> Map1(LAMBDA x: IF SignOf(x) = 0 THEN 1 ELSE SignOf(x), y),
     caller |-> y]

\* a logphi whose direct region takes the boundary: ok = z >= zmax
ErfLogPhiClosed(z) ==
    IF ~ZBelow(z, -55) THEN T("log(Phi(z))", z)
    ELSE IF ZBelow(z, -62) THEN T("asym(z)", z)
    ELSE T("(1-lam)*asym(z)+lam*log(Phi(z))", z)

\* Erf.logphi(z, p) with p = Phi(z)
ErfLogPhi(z) ==
    IF ZAbove(z, -55) THEN T("log(Phi(z))", z)
    ELSE IF ZBelow(z, -62) THEN T("asym(z)", z)
    ELSE T("(1-lam)*asym(z)+lam*log(Phi(z))", z)

\* Erf.cumGauss(y, f, 2): <<p, lp>> of one element
ErfCumGauss(z) == <<T("Phi(z)", z), ErfLogPhi(z)>>

\* Erf.gauOverCumGauss(f, p) of one element
ErfGauOverCumGauss(z, p) ==
    IF ZAbove(z, -50) THEN Wrap2("N/p", T("z", z), p)
    ELSE IF ZBelow(z, -60) THEN T("sqrt(z^2/4+1)-z/2", z)
    ELSE Wrap2("(1-lam)*N/p+lam*bound", T("z", z), p)

\* the elementwise operands <<y, mu, s2>> of one call, after broadcasting
ErfZip(y, mu, s2) ==
    Map2(LAMBDA yy, ms: <<yy, ms[1][1], ms[2][1], ms[1][2]>>, y,
         Map2(LAMBDA m, s: <<m, s>>, mu, s2))

ErfEP(y, mu, s2, der, nargout) ==
    IF der # "None" THEN Ret(<<>>)
    ELSE IF IsNone(s2) THEN Raise("TypeError")
    ELSE IF ~BcOK(mu, s2) THEN Raise("ValueError")
    ELSE IF ~BcOK(y, Map2(LAMBDA m, s: <<m, s>>, mu, s2)) THEN Raise("ValueError")
    ELSE
      LET e == ErfZip(y, mu, s2)
          Z(x) == <<x[1] * x[2], x[3], x[4]>>
          lZ == Map1(LAMBDA x: ErfCumGauss(Z(x))[2], e)
          np(x) == ErfGauOverCumGauss(Z(x), Wrap("exp", ErfCumGauss(Z(x))[2]))
          dlZ == Map1(LAMBDA x: Wrap2("y*n_p/sqrt(1+s2)", Val(x[1]), np(x)), e)
          d2lZ == Map1(LAMBDA x: Wrap("-n_p*(z+n_p)/(1+s2)", np(x)), e)
      IN  IF nargout > 2 THEN Ret(<<lZ, dlZ, d2lZ>>)
          ELSE IF nargout > 1 THEN Ret(<<lZ, dlZ>>)
          ELSE Ret(<<lZ>>)

ErfLaplace(y, mu, der, nargout) ==
    IF der # "None" THEN Ret(<<>>)
    ELSE IF ~BcOK(y, mu) THEN Raise("ValueError")
    ELSE
      LET e == Map2(LAMBDA yy, m: <<yy, m[1], 0, m[2]>>, y, mu)
          Z(x) == <<x[1] * x[2], x[3], x[4]>>
          lp == Map1(LAMBDA x: ErfCumGauss(Z(x))[2], e)
          np(x) == ErfGauOverCumGauss(Z(x), ErfCumGauss(Z(x))[1])
          dlp == Map1(LAMBDA x: Wrap2("y*n_p", Val(x[1]), np(x)), e)
          d2lp == Map1(LAMBDA x: Wrap("-n_p^2-yf*n_p", np(x)), e)
          d3lp == Map1(LAMBDA x:
                         Wrap2("2*y*n_p^3+3*f*n_p^2+y*(f^2-1)*n_p",
                               T("y,f", <<x[1], x[2]>>), np(x)), e)
      IN  IF nargout > 3 THEN Ret(<<lp, dlp, d2lp, d3lp>>)
          ELSE IF nargout > 2 THEN Ret(<<lp, dlp, d2lp>>)
          ELSE IF nargout > 1 THEN Ret(<<lp, dlp>>)
          ELSE Ret(<<lp>>)

\* the moments of prediction mode, given the outcome `nested` of the EP call
ErfMoments(nested, yv, mu, s2, nargout) ==
      LET s2zero == IsNone(s2) \/ ~(\E k \in 1..Len(s2.v) : s2.v[k][1] # 0)
          e == Map2(LAMBDA yy, m: <<yy * m[1], 0, m[2]>>, yv, mu)
          lp == IF s2zero THEN Map1(LAMBDA z: ErfCumGauss(z)[2], e)
                ELSE nested.val[1]
          p == IF s2zero THEN Map1(LAMBDA z: ErfCumGauss(z)[1], e)
               ELSE Map1(LAMBDA t: Wrap("exp", t), lp)
          ymu == Map1(LAMBDA t: Wrap("2*p-1", t), p)
          ys2 == Map1(LAMBDA t: Wrap("4*p*(1-p)", t), p)
      IN  IF ~s2zero /\ nested.k = "raise" THEN nested
          ELSE IF nargout > 2 THEN Ret(<<lp, ymu, ys2>>)
          ELSE IF nargout > 1 THEN Ret(<<lp, ymu>>)
          ELSE Ret(<<lp>>)

ErfPredict(y, mu, s2, nargout) ==
    IF ~BcOK(y, mu) THEN Raise("ValueError")
    ELSE TheOne({ErfMoments(c[1], c[2], mu, s2, nargout) : c \in
             {<<ErfEP(ErfLabels(yv).local, mu, s2, "None", 1), yv>> :
                 yv \in {Map2(LAMBDA yy, m: yy, y, mu)}}})

\* Erf.proceed on scaled arguments; y absent becomes the scalar label 1
ErfCore(y, mu, s2, inffunc, der, nargout) ==
    LET yl == IF IsNone(y) THEN Scalar(1) ELSE ErfLabels(y).local
    IN  IF inffunc = "None" THEN ErfPredict(yl, mu, s2, nargout)
        ELSE IF inffunc = "Laplace" THEN ErfLaplace(yl, mu, der, nargout)
        ELSE IF inffunc = "EP" THEN ErfEP(yl, mu, s2, der, nargout)
        ELSE RetNone

ErfProceed(h, y, mu, s2, inffunc, der, nargout) ==
    ErfCore(y, Map1(Sc, mu), IF IsNone(s2) THEN None ELSE Map1(Sc, s2),
            inffunc, der, nargout)

(***************************************************************************)
(* class Logistic.  np.atleast_2d leaves a column vector as it is and      *)
(* turns an absent argument into the 1x1 object array [[None]], which      *)
(* `== None` does not recognise: an absent y becomes the object label      *)
(* np.sign(None) = -1 (yObj), on which np.exp and erf raise, and an absent *)
(* s2 reaches np.linalg.norm and np.dot, which raise on it.                *)
(***************************************************************************)
RECURSIVE JoinF(_)
JoinF(ts) == IF Len(ts) = 1 THEN ts[1].f ELSE ts[1].f \o "," \o JoinF(Tail(ts))

RECURSIVE JoinA(_)
JoinA(ts) == IF Len(ts) = 0 THEN <<>> ELSE ts[1].a \o JoinA(Tail(ts))

\* the term g(t1, ..., tn) of the terms ts
Comb(g, ts) == T(g \o "(" \o JoinF(ts) \o ")", JoinA(ts))

Row(A, i) == [j \in 1..ColsOf(A.sh) |-> Elem(A, i, j)]

LogisticLabels(y) ==
    IF IsNone(y) THEN [local |-> Col(<<-1>>), caller |-> y]
    ELSE ErfLabels(y)

\* a = Erf().proceed(y*1(1,5), mu*lam, s2*lam^2, inffunc, None, 3)
LogisticErfArgs(y, mu, s2) ==
    [y |-> Arr(<<RowsOf(y.sh), 5>>,
               [k \in 1..(5 * RowsOf(y.sh)) |-> y.v[((k - 1) \div 5) + 1]]),
     mu |-> Arr(<<RowsOf(mu.sh), 5>>,
                [k \in 1..(5 * RowsOf(mu.sh)) |->
                   <<mu.v[((k - 1) \div 5) + 1], ((k - 1) % 5) + 1>>]),
     s2 |-> Arr(<<RowsOf(s2.sh), 5>>,
                [k \in 1..(5 * RowsOf(s2.sh)) |->
                   <<s2.v[((k - 1) \div 5) + 1], ((k - 1) % 5) + 1>>])]

LogisticMixture(y, mu, s2) ==
    TheOne({ErfCore(a.y, a.mu, a.s2, "EP", "None", 3) :
               a \in {LogisticErfArgs(y, mu, s2)}})

\* Logistic._log_expA_x(A, x): one value per row of A
LogisticLogExpAx(A) ==
    Arr(<<RowsOf(A.sh), 1>>,
        [i \in 1..RowsOf(A.sh) |-> Comb("log_expA_x", Row(A, i))])

\* Logistic._expABz_expAx(A, x, B, z): np.atleast_2d(y[0]), the first row only
LogisticExpABzExpAx(g, A, B) == Arr(<<1, 1>>, <<Comb(g, Row(A, 1) \o Row(B, 1))>>)

\* lZtail = min(s2/2 - |mu|, -0.1) keeps the array when -0.1 < array is false
TailIsArray(mu, s2) ==
    5 * s2 - 10 * (IF mu < 0 THEN -mu ELSE mu) <= -1

\* a tail slope without the line `dlZtail[id] = 0`
LogisticDlZtailPlain(yy, m) == Val(-SignOf(m))

\* dlZtail = -np.sign(mu); id = (y*mu)>0; dlZtail[id] = 0
LogisticDlZtail(yy, m) == IF yy * m > 0 THEN Val(0) ELSE Val(-SignOf(m))

\* lZtail = min(s2/2-|mu|, -0.1); lZtail[id] = np.log(1-np.exp(lZtail[id]))
LogisticLZtail(yy, m, s) ==
    IF yy * m > 0 THEN Wrap("log(1-exp", T("s2/2-|mu|", <<s, m>>))
    ELSE T("s2/2-|mu|", <<s, m>>)

\* Logistic.proceed, EP mode, from the outcome `a` of the Erf().proceed call
LogisticBlend(a, yv, yObj, mu, s2, nargout) ==
      LET n == RowsOf(yv.sh)
          m1 == mu.v[1]
          s1 == s2.v[1]
          agree(i) == yv.v[i] * m1 > 0
          lam == T("lam", <<m1, s1>>)
          lZtail == LogisticLZtail(yv.v[1], m1, s1)
          dlZtail == LogisticDlZtail(yv.v[1], m1)
          lZmix == LogisticLogExpAx(a.val[1])
          dlZmix == LogisticExpABzExpAx("expABz_expAx", a.val[1], a.val[2])
          d2lZmix == LogisticExpABzExpAx("expABz_expAx2", a.val[1],
                         Map2(LAMBDA d1, d2: Wrap2("dlZc^2+d2lZc", d1, d2),
                              a.val[2], a.val[3]))
          lZ == Map1(LAMBDA t: Comb("(1-lam)*lZ+lam*lZtail", <<lam, t, lZtail>>),
                     lZmix)
          dlZ == Map1(LAMBDA t: Comb("(1-lam)*dlZ+lam*dlZtail", <<lam, t, dlZtail>>),
                      dlZmix)
          d2lZ == Map2(LAMBDA t, u:
                         Comb("(1-lam)*(d2lZ-dlZ^2)+lam*d2lZtail",
                              <<lam, t, u, Val(0)>>), d2lZmix, dlZmix)
      IN  IF a.k = "raise" THEN a
          ELSE IF yObj THEN Raise("TypeError")
          ELSE IF Len(mu.v) > 1 \/ Len(s2.v) > 1 THEN Raise("ValueError")
          ELSE IF ~TailIsArray(m1, s1) THEN Raise("TypeError")
          ELSE IF \E i \in 2..n : agree(i) THEN Raise("IndexError")
          ELSE IF nargout > 2 THEN Ret(<<lZ, dlZ, d2lZ>>)
          ELSE IF nargout > 1 THEN Ret(<<lZ, dlZ>>)
          ELSE Ret(<<lZ>>)

LogisticEP(y, yObj, mu, s2, der, nargout) ==
    IF der # "None" THEN Ret(<<>>)
    ELSE IF ~BcOK(y, mu) THEN Raise("ValueError")
    ELSE IF IsNone(s2) THEN Raise("TypeError")
    ELSE TheOne({LogisticBlend(c[1], c[2], yObj, mu, s2, nargout) : c \in
             {<<LogisticMixture(yv, mu, s2), yv>> :
                 yv \in {Map2(LAMBDA yy, m: yy, y, mu)}}})

LogisticLaplace(y, yObj, mu, der, nargout) ==
    IF der # "None" THEN Ret(<<>>)
    ELSE IF ~BcOK(y, mu) THEN Raise("ValueError")
    ELSE IF Len(Mul(y, mu).v) > 1 THEN Raise("ValueError")
    ELSE IF yObj THEN Raise("AttributeError")
    ELSE
      LET yy == y.v[1]
          f == mu.v[1]
          lp == Arr(<<1, 1>>, <<T("-(ps+log(exp(-ps)+exp(s-ps)))", <<-(yy * f)>>)>>)
          dlp == Arr(<<1, 1>>, <<T("(y+1)/2-p", <<yy, f>>)>>)
          d2lp == Arr(<<1, 1>>, <<T("-exp(2s-f)/(exp(s)+exp(s-f))^2", <<f>>)>>)
          d3lp == Arr(<<1, 1>>, <<T("2*d2lp*(0.5-p)", <<f>>)>>)
      IN  IF nargout > 3 THEN Ret(<<lp, dlp, d2lp, d3lp>>)
          ELSE IF nargout > 2 THEN Ret(<<lp, dlp, d2lp>>)
          ELSE IF nargout > 1 THEN Ret(<<lp, dlp>>)
          ELSE Ret(<<lp>>)

LogisticExact(yf) ==
    IF -35 < yf THEN T("-log(1+exp(-yf))", <<yf>>) ELSE Val(yf)

\* the moments of prediction mode, given the outcome `nested` of the EP call
LogisticMoments(nested, yv, yObj, mu, s2, nargout) ==
      LET s2zero == ~NormPositive(s2)
          lp == IF s2zero THEN Map1(LogisticExact, Mul(yv, mu)) ELSE nested.val[1]
          p == Map1(LAMBDA t: Wrap("exp", t), lp)
          ymu == Map1(LAMBDA t: Wrap("2*p-1", t), p)
          ys2 == Map1(LAMBDA t: Wrap("4*p*(1-p)", t), p)
      IN  IF s2zero /\ yObj THEN Raise("AttributeError")
          ELSE IF ~s2zero /\ nested.k = "raise" THEN nested
          ELSE IF nargout > 2 THEN Ret(<<lp, ymu, ys2>>)
          ELSE IF nargout > 1 THEN Ret(<<lp, ymu>>)
          ELSE Ret(<<lp>>)

LogisticPredict(y, yObj, mu, s2, nargout) ==
    IF ~BcOK(y, mu) THEN Raise("ValueError")
    ELSE IF IsNone(s2) THEN Raise("TypeError")
    ELSE TheOne({LogisticMoments(c[1], c[2], yObj, mu, s2, nargout) : c \in
             {<<LogisticEP(LogisticLabels(yv).local, yObj, mu, s2, "None", 1), yv>> :
                 yv \in {Map2(LAMBDA yy, m: yy, y, mu)}}})

LogisticVB(y, yObj, s2) ==
    LET n == IF IsNone(s2) THEN 1 ELSE Len(s2.v)
        ones == Arr(<<n, 1>>, [k \in 1..n |-> 1])
    IN  IF ~BcOK(y, ones) THEN Raise("ValueError")
        ELSE LET b == Map2(LAMBDA yy, o:
                             IF yObj THEN Val(-1) ELSE T("y/2", <<yy>>), y, ones)
             IN  Ret(<<b, Map1(LAMBDA t: Val(0), b)>>)

LogisticProceed(h, y, mu, s2, inffunc, der, nargout) ==
    LET yl == LogisticLabels(y).local
        yObj == IsNone(y)
    IN  IF inffunc = "None" THEN LogisticPredict(yl, yObj, mu, s2, nargout)
        ELSE IF inffunc = "Laplace" THEN LogisticLaplace(yl, yObj, mu, der, nargout)
        ELSE IF inffunc = "EP" THEN LogisticEP(yl, yObj, mu, s2, der, nargout)
        ELSE LogisticVB(yl, yObj, s2)

(***************************************************************************)
(* class Laplace.  sn = np.exp(self.hyp) is a 1-d array of one element,    *)
(* because self.hyp is a list.                                             *)
(***************************************************************************)
AbsVal(x) == IF x < 0 THEN -x ELSE x

\* factor between the widths from which one of them counts as a delta peak
fac == 1000

\* a variant of idlik that takes the boundary fac*sn = sqrt(s2) as well
IdLikInclusive(sn, s2) == fac * fac * sn * sn <= s2

\* idlik = (fac*sn) < np.sqrt(s2), idgau = (fac*np.sqrt(s2)) < sn
IdLik(sn, s2) == fac * fac * sn * sn < s2

IdGau(sn, s2) == s2 <= (sn * sn) \div (fac * fac) /\ fac * fac * s2 < sn * sn

Indices(n, P(_)) == SelectSeq([i \in 1..n |-> i], P)

\* the branch of EP mode that handles an element: idlik, idgau, or
\* id = not idgau and not idlik
LaplaceRoute(sn, s2) ==
    IF IdLik(sn, s2) THEN "idlik" ELSE IF IdGau(sn, s2) THEN "idgau" ELSE "id"

\* Laplace._logphi(z) of one element, assignment by assignment: lp = 0,
\* lp[ok] = direct, lp[nok] = asymptotic, lp[ip] = (1-lam)*lp[ip] + lam*direct
LaplaceLogPhi(z) ==
    LET ok == ZAbove(z, -55)
        bd == ZBelow(z, -62)
        nok == ~ok
        ip == nok /\ ~bd
        lp0 == Val(0)
        lp1 == IF ok THEN T("log(0.5*(1+erf(z/sqrt(2))))", z) ELSE lp0
        lp2 == IF nok THEN T("asym(z)", z) ELSE lp1
    IN  IF ip THEN Wrap("(1-lam)*lp+lam*log(0.5*(1+erf(z/sqrt(2))))", lp2)
        ELSE lp2

LaplacePredictExact(d, sn) == T("x/b-log(2*b)", <<-AbsVal(d), sn>>)

\* Laplace.proceed, EP mode, from the array `a` the Gauss call returned
LaplaceBranches(a, sn, y, mu, s2, der, nargout) ==
      LET ny == Len(y.v)
          nm == Len(mu.v)
          ns == Len(s2.v)
          n == IF ny >= nm /\ ny >= ns THEN ny ELSE IF nm >= ns THEN nm ELSE ns
          on == Arr(<<n, 1>>, [k \in 1..n |-> 1])
          yv == Mul(y, on).v
          mv == Mul(mu, on).v
          sv == Mul(s2, on).v
          lik_ == Indices(n, LAMBDA i: IdLik(sn, sv[i]))
          gau == Indices(n, LAMBDA i: IdGau(sn, sv[i]))
          gen == Indices(n, LAMBDA i: ~IdLik(sn, sv[i]) /\ ~IdGau(sn, sv[i]))
          leaf(i) == <<mv[i] - yv[i], sv[i], sn>>
          g1 == leaf(gen[1])
          Fill(slot, genTerm(_)) ==
              Arr(<<n, 1>>, [i \in 1..n |->
                  IF IdLik(sn, sv[i]) THEN a.v[slot]
                  ELSE IF IdGau(sn, sv[i]) THEN Val(0)
                  ELSE genTerm(i)])
          lZ == Fill(1, LAMBDA i: T("logsum2exp(ap,am)+tvar-log(sn*sqrt(2))", leaf(i)))
          dlZ == Fill(2, LAMBDA i: T("expABz_expAx(ap,am,dap,dam)", g1))
          d2lZ == Fill(3, LAMBDA i: T("expABz_expAx(ap,am,bp,bm)-dlZ^2", g1 \o g1))
          dlZhyp == Arr(<<n, 1>>, [i \in 1..n |->
                        IF IdLik(sn, sv[i]) \/ IdGau(sn, sv[i]) THEN Val(0)
                        ELSE T("(dap+dam)/(ep+em)-1", leaf(i))])
      IN  IF ~BcOK(y, on) \/ ~BcOK(mu, on) \/ ~BcOK(s2, on) THEN Raise("ValueError")
          ELSE IF der # "None"
          THEN IF Len(gau) > 0 THEN Raise("TypeError") ELSE Ret(<<dlZhyp>>)
          ELSE IF Len(lik_) > 0 /\ Len(lik_) < 3 THEN Raise("IndexError")
          ELSE IF Len(gau) > 0 THEN Raise("TypeError")
          ELSE IF nargout > 1
          THEN IF Len(gen) = 0 THEN Raise("NameError")
               ELSE IF nargout > 2
               THEN IF Len(gen) > 1 THEN Raise("ValueError")
                    ELSE Ret(<<lZ, dlZ, d2lZ>>)
               ELSE Ret(<<lZ, dlZ>>)
          ELSE Ret(<<lZ>>)

\* if np.any(idlik): l = Gauss(log_sigma=np.log(s2[idlik])/2);
\* a = l.proceed(mu[idlik], y[idlik])
LaplaceDeltaLik(sn, y, mu, s2) ==
    LET n == Len(s2.v)
        lik_ == Indices(n, LAMBDA i: IdLik(sn, s2.v[i]))
        Sel(v, idx) == Arr(<<Len(idx)>>, [k \in 1..Len(idx) |-> v[idx[k]]])
    IN  IF Len(lik_) = 0 THEN Arr(<<0>>, <<>>)
        ELSE GaussCore(Map1(LAMBDA v: ExpTimes(2, LogVal(v, 2)), Sel(s2.v, lik_)),
                       Sel(mu.v, lik_), Sel(y.v, lik_), None, "None", "None", 1).val[1]

LaplaceEP(sn, y, mu, s2, der, nargout) ==
    IF IsNone(s2) THEN Raise("AttributeError")
    ELSE
      LET ny == Len(y.v)
          nm == Len(mu.v)
          ns == Len(s2.v)
          n == IF ny >= nm /\ ny >= ns THEN ny ELSE IF nm >= ns THEN nm ELSE ns
          on == Arr(<<n, 1>>, [k \in 1..n |-> 1])
      IN  IF ~BcOK(y, on) \/ ~BcOK(mu, on) \/ ~BcOK(s2, on) THEN Raise("ValueError")
          ELSE TheOne({LaplaceBranches(a, sn, y, mu, s2, der, nargout) : a \in
                   {LaplaceDeltaLik(sn, Mul(y, on), Mul(mu, on), Mul(s2, on))}})

LaplaceLaplace(sn, y, mu, der, nargout) ==
    IF der # "None" THEN Ret(<<>>)
    ELSE IF ~BcOK(y, mu) THEN Raise("ValueError")
    ELSE IF nargout > 1 THEN Raise("NameError")
    ELSE Ret(<<Map1(LAMBDA d: T("x/b-log(2*b)", <<AbsVal(d), sn>>), Sub(y, mu))>>)

\* the moments of prediction mode, given the outcome `first` of its lp
LaplaceMoments(first, sn, mu, s2, nargout) ==
    LET s2zero == IsNone(s2) \/ ~NormPositive(s2)
        \* ys2 = s2 + sn**2, with s2 = 0 on the exact branch
        ys2 == IF s2zero THEN Arr(<<1>>, <<Val(sn * sn)>>)
               ELSE Map1(LAMBDA v: Val(v + sn * sn), s2)
    IN  IF first.k = "raise" THEN first
        ELSE IF nargout > 2 THEN Ret(<<first.val[1], AsVals(mu), ys2>>)
        ELSE IF nargout > 1 THEN Ret(<<first.val[1], AsVals(mu)>>)
        ELSE Ret(<<first.val[1]>>)

LaplacePredict(sn, y, mu, s2, nargout) ==
    LET s2zero == IsNone(s2) \/ ~NormPositive(s2)
    IN  TheOne({LaplaceMoments(first, sn, mu, s2, nargout) : first \in
            {IF s2zero
             THEN IF ~BcOK(y, mu) THEN Raise("ValueError")
                  ELSE Ret(<<Map1(LAMBDA d: LaplacePredictExact(d, sn), Sub(y, mu))>>)
             ELSE LaplaceEP(sn, y, mu, s2, "None", 1)}})

LaplaceVB(y, s2) ==
    IF IsNone(s2) THEN Raise("AttributeError")
    ELSE LET ones == Arr(<<Len(s2.v), 1>>, [k \in 1..Len(s2.v) |-> 1])
         IN  IF ~BcOK(y, ones) THEN Raise("ValueError")
             ELSE Ret(<<Map1(LAMBDA o: Val(0), ones), AsVals(Mul(y, ones))>>)

LaplaceProceed(h, y, mu, s2, inffunc, der, nargout) ==
    LET sn == ExpTimes(1, h[1])
        y0 == IF IsNone(y) THEN ZerosLike(mu) ELSE y
    IN  IF inffunc = "None" THEN LaplacePredict(sn, y0, mu, s2, nargout)
        ELSE IF inffunc = "Laplace" THEN LaplaceLaplace(sn, y0, mu, der, nargout)
        ELSE IF inffunc = "EP" THEN LaplaceEP(sn, y0, mu, s2, der, nargout)
        ELSE LaplaceVB(y0, s2)

(***************************************************************************)
(* The caller: one likelihood instance, built once, and any sequence of    *)
(* proceed() calls on it.  args is the last call, out its outcome, mem the *)
(* caller's y, mu and s2 arrays as the call left them.                     *)
(***************************************************************************)
Variants == {"Gauss", "Erf", "Logistic", "Laplace"}

HypsOf(l) ==
    IF l \in {"Gauss", "Laplace"} THEN {<<LogVal(1, 2)>>, <<LogVal(4, 2)>>}
    ELSE {<<>>}

YVals == {-1, 0, 2}

MuVals == {-1, 1}

S2Vals == {0, 1, 4000000}

ColsOf_n(S, n) == {Col(v) : v \in [1..n -> S]}

\* a column of one repeated value
Const(x, n) == Col([k \in 1..n |-> x])

ConstCols(S) == {Const(x, n) : x \in S, n \in 1..MaxLen}

Modes == {"None", "Laplace", "EP", "VB"}

\* prediction mode has no derivative mode; the widths are those each mode
\* tells apart (nargout > 3 only in Laplace mode, nargout > 1 never in VB)
Calls ==
    {c \in [inffunc : Modes, der : {"None", "0"}, nargout : 1..4] :
        /\ c.inffunc = "None" => c.der = "None" /\ c.nargout <= 3
        /\ c.inffunc = "EP" => c.nargout <= 3
        /\ c.inffunc = "VB" => c.der = "None" /\ c.nargout <= 2}

\* batches of one length, y and s2 present or absent
EqualInputs ==
    UNION {[y : ColsOf_n(YVals, n) \cup {None}, mu : ColsOf_n(MuVals, n),
            s2 : ColsOf_n(S2Vals, n) \cup {None}] : n \in 1..MaxLen}

\* batches whose sequences may differ in length, each filled with one value
RaggedInputs == [y : ConstCols(YVals), mu : ConstCols(MuVals), s2 : ConstCols(S2Vals)]

Inputs == EqualInputs \cup RaggedInputs

Evaluate(l, h, y, mu, s2, inffunc, der, nargout) ==
    IF l = "Gauss" THEN GaussProceed(h, y, mu, s2, inffunc, der, nargout)
    ELSE IF l = "Erf" THEN ErfProceed(h, y, mu, s2, inffunc, der, nargout)
    ELSE IF l = "Logistic" THEN LogisticProceed(h, y, mu, s2, inffunc, der, nargout)
    ELSE LaplaceProceed(h, y, mu, s2, inffunc, der, nargout)

\* the caller's arrays after the call: the only in-place writes to an array
\* named y are those of the label normalisation
ArgsAfter(l, y, mu, s2) ==
    [y |-> IF l = "Erf" /\ ~IsNone(y) THEN ErfLabels(y).caller
           ELSE IF l = "Logistic" THEN LogisticLabels(y).caller
           ELSE y,
     mu |-> mu, s2 |-> s2]

NoCall ==
    /\ args = [y |-> None, mu |-> None, s2 |-> None,
               inffunc |-> "None", der |-> "None", nargout |-> 1]
    /\ mem = [y |-> None, mu |-> None, s2 |-> None]
    /\ out = [k |-> "init", exc |-> "", val |-> <<>>]

Init ==
    /\ lik \in Variants
    /\ hyp \in HypsOf(lik)
    /\ hyp0 = hyp
    /\ NoCall
    /\ stack = <<>>

Call(l) ==
    /\ lik = l
    /\ out.k = "init"
    /\ \E i \in Inputs, c \in Calls :
         /\ args' = [y |-> i.y, mu |-> i.mu, s2 |-> i.s2,
                     inffunc |-> c.inffunc, der |-> c.der, nargout |-> c.nargout]
         /\ out' = Evaluate(l, hyp, i.y, i.mu, i.s2, c.inffunc, c.der, c.nargout)
         /\ mem' = ArgsAfter(l, i.y, i.mu, i.s2)
    /\ UNCHANGED <<lik, hyp, hyp0, stack>>

GaussCall == Call("Gauss")

ErfCall == Call("Erf")

LogisticCall == Call("Logistic")

LaplaceCall == Call("Laplace")

\* the caller drops the outcome and its arrays before the next call
Forget ==
    /\ out.k # "init"
    /\ args' = [y |-> None, mu |-> None, s2 |-> None,
                inffunc |-> "None", der |-> "None", nargout |-> 1]
    /\ mem' = [y |-> None, mu |-> None, s2 |-> None]
    /\ out' = [k |-> "init", exc |-> "", val |-> <<>>]
    /\ UNCHANGED <<lik, hyp, hyp0, stack>>

Next == GaussCall \/ ErfCall \/ LogisticCall \/ LaplaceCall \/ Forget

Spec == Init /\ [][Next]_vars

(***************************************************************************)
(* The helpers logphi on their own: Erf.logphi and Laplace._logphi applied *)
(* to an array z.  An element is the leaf <<x, s, 0>> of the Erf section,  *)
(* the number x/sqrt(1+s): <<-11, 3, 0>> is zmax = -5.5 and <<-31, 24, 0>> *)
(* is zmin = -6.2.                                                         *)
(***************************************************************************)
ZVals == {<<2, 0, 0>>, <<0, 0, 0>>, <<-5, 0, 0>>, <<-11, 3, 0>>, <<-6, 0, 0>>,
          <<-12, 3, 0>>, <<-31, 24, 0>>, <<-32, 24, 0>>, <<-7, 0, 0>>}

ZInputs == UNION {ColsOf_n(ZVals, n) : n \in 1..MaxLen}

LogPhiInit ==
    /\ lik \in {"Erf", "Laplace"}
    /\ hyp = <<>>
    /\ hyp0 = hyp
    /\ args = [z |-> None]
    /\ mem = [z |-> None]
    /\ out = [k |-> "init", exc |-> "", val |-> <<>>]
    /\ stack = <<>>

\* lp = self.logphi(yf, p) in Erf.cumGauss
ErfLogphiCall ==
    /\ lik = "Erf"
    /\ out.k = "init"
    /\ \E z \in ZInputs :
         /\ args' = [z |-> z]
         /\ mem' = [z |-> z]
         /\ out' = Ret(<<Map1(ErfLogPhi, z)>>)
    /\ UNCHANGED <<lik, hyp, hyp0, stack>>

\* self._logphi(zm) in Laplace.proceed
LaplaceLogphiCall ==
    /\ lik = "Laplace"
    /\ out.k = "init"
    /\ \E z \in ZInputs :
         /\ args' = [z |-> z]
         /\ mem' = [z |-> z]
         /\ out' = Ret(<<Map1(LaplaceLogPhi, z)>>)
    /\ UNCHANGED <<lik, hyp, hyp0, stack>>

LogPhiForget ==
    /\ out.k # "init"
    /\ args' = [z |-> None]
    /\ mem' = [z |-> None]
    /\ out' = [k |-> "init", exc |-> "", val |-> <<>>]
    /\ UNCHANGED <<lik, hyp, hyp0, stack>>

LogPhiNext == ErfLogphiCall \/ LaplaceLogphiCall \/ LogPhiForget

LogPhiSpec == LogPhiInit /\ [][LogPhiNext]_vars

(***************************************************************************)
(* The calls of proceed() one at a time.  A frame is one activation of     *)
(* proceed: the instance it runs on and its arguments.  `stack` holds the  *)
(* activations in progress, the caller's first, each with the nested calls *)
(* it has still to make (todo) and the number it has made (made).  The     *)
(* outermost one also carries the outcome it hands to the caller (gives),  *)
(* which Evaluate computes from its arguments, nested calls included.      *)
(***************************************************************************)
Frame(l, h, y, mu, s2, inffunc, der) ==
    [lik |-> l, hyp |-> h, y |-> y, mu |-> mu, s2 |-> s2,
     inffunc |-> inffunc, der |-> der]

\* Gauss.proceed: lp = self.proceed(y, mu, s2, inf_func) unless s2zero
GaussChildren(f) ==
    LET y0 == IF IsNone(f.y) THEN ZerosLike(f.mu) ELSE f.y
    IN  IF f.inffunc = "None" /\ ~IsNone(f.s2) /\ NormPositive(f.s2)
        THEN <<Frame("Gauss", f.hyp, y0, f.mu, f.s2, "EP", "None")>>
        ELSE <<>>

\* Erf.proceed: lp = self.proceed(y, mu, s2, inf.EP()) unless s2zero
ErfChildren(f) ==
    LET yl == IF IsNone(f.y) THEN Scalar(1) ELSE ErfLabels(f.y).local
    IN  IF f.inffunc = "None" /\ BcOK(yl, f.mu)
             /\ ~IsNone(f.s2) /\ NormPositive(f.s2)
        THEN <<Frame("Erf", f.hyp, Map2(LAMBDA yy, m: yy, yl, f.mu), f.mu, f.s2,
                     "EP", "None")>>
        ELSE <<>>

\* Logistic.proceed: prediction calls self.proceed(y, mu, s2, inf.EP()), and
\* EP mode outside derivative mode calls Erf().proceed on the scaled arguments
LogisticChildren(f) ==
    LET yl == LogisticLabels(f.y).local
        a == LogisticErfArgs(Map2(LAMBDA yy, m: yy, yl, f.mu), f.mu, f.s2)
    IN  IF ~BcOK(yl, f.mu) \/ IsNone(f.s2) THEN <<>>
        ELSE IF f.inffunc = "None" /\ NormPositive(f.s2)
        THEN <<Frame("Logistic", f.hyp, Map2(LAMBDA yy, m: yy, yl, f.mu), f.mu,
                     f.s2, "EP", "None")>>
        ELSE IF f.inffunc = "EP" /\ f.der = "None"
        THEN <<Frame("Erf", <<>>, a.y, a.mu, a.s2, "EP", "None")>>
        ELSE <<>>

\* a nested Gauss call that hands the variances on as its s2
LaplaceChildrenPassS2(f) ==
    IF IsNone(f.s2) \/ ~NormPositive(f.s2) THEN <<>>
    ELSE IF f.inffunc = "None"
    THEN <<Frame("Laplace", f.hyp, f.y, f.mu, f.s2, "EP", "None")>>
    ELSE IF f.inffunc = "EP"
    THEN <<Frame("Gauss", <<LogVal(1, 2)>>, f.mu, f.mu, f.s2, "None", "None")>>
    ELSE <<>>

\* Laplace.proceed: prediction calls self.proceed(y, mu, s2, inf.EP()); EP
\* mode outside derivative mode calls Gauss(...).proceed(mu[idlik], y[idlik])
\* if np.any(idlik); Laplace(log_hyp=...) raises before its proceed is called
LaplaceChildren(f) ==
    LET y0 == IF IsNone(f.y) THEN ZerosLike(f.mu) ELSE f.y
        sn == ExpTimes(1, f.hyp[1])
        ny == Len(y0.v)
        nm == Len(f.mu.v)
        ns == Len(f.s2.v)
        n == IF ny >= nm /\ ny >= ns THEN ny ELSE IF nm >= ns THEN nm ELSE ns
        on == Arr(<<n, 1>>, [k \in 1..n |-> 1])
        idlik == Indices(n, LAMBDA i: IdLik(sn, Mul(f.s2, on).v[i]))
        Sel(v, idx) == Arr(<<Len(idx)>>, [k \in 1..Len(idx) |-> v[idx[k]]])
    IN  IF IsNone(f.s2) THEN <<>>
        ELSE IF f.inffunc = "None" /\ NormPositive(f.s2)
        THEN <<Frame("Laplace", f.hyp, y0, f.mu, f.s2, "EP", "None")>>
        ELSE IF f.inffunc = "EP" /\ f.der = "None"
                 /\ BcOK(y0, on) /\ BcOK(f.mu, on) /\ BcOK(f.s2, on)
                 /\ Len(idlik) > 0
        THEN <<Frame("Gauss",
                     <<Map1(LAMBDA v: LogVal(v, 2), Sel(Mul(f.s2, on).v, idlik))>>,
                     Sel(Mul(f.mu, on).v, idlik), Sel(Mul(y0, on).v, idlik),
                     None, "None", "None")>>
        ELSE <<>>

\* the nested proceed calls an activation makes, in order
Children(f) ==
    IF f.lik = "Gauss" THEN GaussChildren(f)
    ELSE IF f.lik = "Erf" THEN ErfChildren(f)
    ELSE IF f.lik = "Logistic" THEN LogisticChildren(f)
    ELSE LaplaceChildren(f)

Activation(f, gives) ==
    [call |-> f, todo |-> Children(f), made |-> 0, gives |-> gives]

\* batches of one length: y and mu filled with one value, s2 absent or any
NestInputs ==
    UNION {[y : {Const(x, n) : x \in YVals}, mu : {Const(x, n) : x \in MuVals},
            s2 : ColsOf_n(S2Vals, n) \cup {None}] : n \in 1..MaxLen}

NestCalls ==
    {c \in [inffunc : Modes, der : {"None", "0"}] :
        c.inffunc \in {"None", "VB"} => c.der = "None"}

\* the caller calls proceed
Enter ==
    /\ stack = <<>>
    /\ out.k = "init"
    /\ \E i \in NestInputs, c \in NestCalls :
         /\ args' = [y |-> i.y, mu |-> i.mu, s2 |-> i.s2,
                     inffunc |-> c.inffunc, der |-> c.der, nargout |-> 1]
         /\ stack' = <<Activation(Frame(lik, hyp, i.y, i.mu, i.s2,
                                        c.inffunc, c.der),
                                  Evaluate(lik, hyp, i.y, i.mu, i.s2,
                                           c.inffunc, c.der, 1))>>
    /\ UNCHANGED <<lik, hyp, hyp0, mem, out>>

\* the running activation makes its next nested call
Descend ==
    /\ stack # <<>>
    /\ stack[Len(stack)].todo # <<>>
    /\ LET top == stack[Len(stack)]
       IN  stack' = Append([stack EXCEPT ![Len(stack)] =
                               [top EXCEPT !.todo = Tail(top.todo),
                                           !.made = top.made + 1]],
                           Activation(Head(top.todo), RetNone))
    /\ UNCHANGED <<lik, hyp, hyp0, args, mem, out>>

\* the running activation is left, by return or by exception; the outcome
\* of the outermost one reaches the caller
Return ==
    /\ stack # <<>>
    /\ stack[Len(stack)].todo = <<>>
    /\ stack' = SubSeq(stack, 1, Len(stack) - 1)
    /\ IF Len(stack) = 1
       THEN /\ out' = stack[1].gives
            /\ mem' = ArgsAfter(lik, args.y, args.mu, args.s2)
       ELSE UNCHANGED <<mem, out>>
    /\ UNCHANGED <<lik, hyp, hyp0, args>>

NestNext == Enter \/ Descend \/ Return \/ Forget

\* an activation that can take a step does take it: the interpreter runs on
NestSpec ==
    Init /\ [][NestNext]_vars /\ WF_vars(Descend) /\ WF_vars(Return)

(***************************************************************************)
(* Vocabulary of the properties.                                           *)
(***************************************************************************)
Called == out.k # "init"

Returned == out.k = "ret"

Present(x) == ~IsNone(x)

\* y, mu and s2 are all given and of one length
FullBatch ==
    /\ Present(args.y) /\ Present(args.mu) /\ Present(args.s2)
    /\ Len(args.y.v) = Len(args.mu.v)
    /\ Len(args.s2.v) = Len(args.mu.v)

\* the modes and widths of the interface, outside derivative mode
Supported(inffunc, nargout) ==
    \/ inffunc = "None" /\ nargout \in 1..3
    \/ inffunc = "Laplace" /\ nargout \in 1..4
    \/ inffunc = "EP" /\ nargout \in 1..3

\* the same call as the last one, with y and the width replaced
Again(y, nargout) ==
    Evaluate(lik, hyp, y, args.mu, args.s2, args.inffunc, args.der, nargout)

(***************************************************************************)
(* C1: every non-derivative call in a supported mode and width returns     *)
(* exactly result_width sequences.                                         *)
(***************************************************************************)
C1_ExactWidth ==
    (Called /\ FullBatch /\ args.der = "None"
            /\ Supported(args.inffunc, args.nargout))
        => (Returned /\ Len(out.val) = args.nargout)

(***************************************************************************)
(* C2: the result for width k is a strict prefix of the result for width   *)
(* k+1 of the same call, whenever both widths are supported.               *)
(***************************************************************************)
C2_StrictPrefix ==
    (Returned /\ FullBatch /\ args.der = "None"
              /\ Supported(args.inffunc, args.nargout)
              /\ Supported(args.inffunc, args.nargout + 1))
        => LET wider == Again(args.y, args.nargout + 1)
           IN  /\ wider.k = "ret"
               /\ Len(out.val) < Len(wider.val)
               /\ out.val = Take(wider.val, Len(out.val))

\* what does hold: two widths that both return agree on the common prefix
C2_PrefixWhenBothReturn ==
    (Returned /\ args.der = "None" /\ args.nargout < 4)
        => LET wider == Again(args.y, args.nargout + 1)
           IN  wider.k = "ret" => out.val = Take(wider.val, Len(out.val))

(***************************************************************************)
(* C3: Variational-Bayes mode on the Gaussian or the Erf likelihood is     *)
(* signalled as an error; the call never returns normally.                 *)
(***************************************************************************)
C3_VBSignalled ==
    (Called /\ lik \in {"Gauss", "Erf"} /\ args.inffunc = "VB")
        => out.k = "raise"

(***************************************************************************)
(* C4: the classification likelihoods use each target as +1 when it is     *)
(* positive or zero and as -1 when it is negative, so a call with y = 0    *)
(* has the outcome of the same call with y = +1.                           *)
(***************************************************************************)
Labels(y) == Map1(LAMBDA x: IF x >= 0 THEN 1 ELSE -1, y)

C4_ZeroAsPlusOne ==
    (Called /\ lik \in {"Erf", "Logistic"} /\ Present(args.y))
        => out = Again(Labels(args.y), args.nargout)

C4_Witness ==
    /\ Returned
    /\ lik \in {"Erf", "Logistic"}
    /\ Present(args.y)
    /\ \E k \in 1..Len(args.y.v) : args.y.v[k] = 0
    /\ args.inffunc = "EP"
    /\ args.nargout = 3

(***************************************************************************)
(* C5: in prediction, Laplace and EP mode a call without y has the outcome *)
(* of the same call with y all zero (Gaussian, Laplace) or all +1 (Erf,    *)
(* Logistic).                                                              *)
(***************************************************************************)
DefaultY == Map1(LAMBDA x: IF lik \in {"Gauss", "Laplace"} THEN 0 ELSE 1, args.mu)

C5_AbsentY ==
    (Called /\ IsNone(args.y) /\ Present(args.s2)
            /\ Len(args.s2.v) = Len(args.mu.v)
            /\ args.der = "None" /\ Supported(args.inffunc, args.nargout))
        => out = Again(DefaultY, args.nargout)

(***************************************************************************)
(* C6: prediction mode takes the exact branch exactly when s2 is absent or *)
(* all zero; otherwise it makes one EP-mode call on the same (y, mu, s2)   *)
(* and its first result is the log Z of that call.                         *)
(***************************************************************************)
ExactLogLik(y, mu) ==
    IF lik = "Gauss"
    THEN Map2(GaussLogPdf, Sub(y, mu), Scalar(ExpTimes(2, hyp[1])))
    ELSE IF lik = "Erf"
    THEN Map1(LAMBDA yf: ErfCumGauss(<<yf, 0, 0>>)[2], Mul(Labels(y), mu))
    ELSE IF lik = "Logistic"
    THEN Map1(LogisticExact, Mul(Labels(y), mu))
    ELSE Map2(LaplacePredictExact, Sub(y, mu), Scalar(ExpTimes(1, hyp[1])))

C6_PredictionBranch ==
    (Called /\ args.inffunc = "None" /\ Present(args.y)
            /\ Len(args.y.v) = Len(args.mu.v)
            /\ (Present(args.s2) => Len(args.s2.v) = Len(args.mu.v)))
        => IF IsNone(args.s2) \/ ~NormPositive(args.s2)
           THEN Returned /\ out.val[1] = ExactLogLik(args.y, args.mu)
           ELSE LET nested == Evaluate(lik, hyp, args.y, args.mu, args.s2,
                                       "EP", "None", 1)
                IN  IF nested.k = "ret"
                    THEN Returned /\ out.val[1] = nested.val[1]
                    ELSE out = nested

(***************************************************************************)
(* C7: a call whose present arrays among y, mu and s2 do not all have the  *)
(* same length is rejected with an error.                                  *)
(***************************************************************************)
Ragged ==
    \/ Present(args.y) /\ Len(args.y.v) # Len(args.mu.v)
    \/ Present(args.s2) /\ Len(args.s2.v) # Len(args.mu.v)
    \/ Present(args.y) /\ Present(args.s2) /\ Len(args.y.v) # Len(args.s2.v)

C7_RaggedRejected ==
    (Called /\ Ragged /\ args.der = "None"
            /\ Supported(args.inffunc, args.nargout))
        => out.k = "raise"

(***************************************************************************)
(* C8: the EP mode of the Laplace likelihood never raises an error, in any *)
(* of its three branches, with or without a hyperparameter index.          *)
(***************************************************************************)
C8_LaplaceEPReturns ==
    (Called /\ lik = "Laplace" /\ args.inffunc = "EP" /\ FullBatch
            /\ args.nargout \in 1..3)
        => Returned

(***************************************************************************)
(* C9: a call leaves the hyperparameters of the likelihood and the         *)
(* caller's y, mu and s2 arrays as they were.                              *)
(***************************************************************************)
C9_Frame ==
    /\ hyp = hyp0
    /\ Called => /\ mem.y = args.y
                 /\ mem.mu = args.mu
                 /\ mem.s2 = args.s2

C9_Witness ==
    /\ Returned
    /\ lik \in {"Erf", "Logistic"}
    /\ Present(args.y)
    /\ \E k \in 1..Len(args.y.v) : args.y.v[k] \notin {-1, 1}
    /\ mem.y = args.y

(***************************************************************************)
(* C10: entry i of every returned sequence is determined by y, mu and s2   *)
(* at entry i alone: changing the inputs at another entry leaves it as it  *)
(* was.                                                                    *)
(***************************************************************************)
Put(a, j, x) == Arr(a.sh, [a.v EXCEPT ![j] = x])

\* entry i of a returned sequence; a sequence of one entry serves them all
EntryOf(a, i) == IF Len(a.v) = 1 THEN a.v[1] ELSE a.v[i]

C10_Independent ==
    (Returned /\ FullBatch)
        => \A i \in 1..Len(args.mu.v) :
           \A j \in (1..Len(args.mu.v)) \ {i} :
           \A yy \in YVals, mm \in MuVals, ss \in S2Vals :
              LET alt == Evaluate(lik, hyp, Put(args.y, j, yy),
                                  Put(args.mu, j, mm), Put(args.s2, j, ss),
                                  args.inffunc, args.der, args.nargout)
              IN  alt.k = "ret"
                      => \A k \in 1..Len(out.val) :
                            EntryOf(out.val[k], i) = EntryOf(alt.val[k], i)

(***************************************************************************)
(* C11: in prediction mode the predictive mean and variance, the second    *)
(* and third returned sequences, do not depend on y: two calls that differ *)
(* only in y return the same mean and the same variance.                   *)
(***************************************************************************)
C11_MomentsIgnoreY ==
    (Returned /\ FullBatch /\ args.inffunc = "None" /\ args.nargout >= 2)
        => \A yy \in ColsOf_n(YVals, Len(args.mu.v)) :
              LET other == Again(yy, args.nargout)
              IN  other.k = "ret"
                      => \A k \in 2..Len(out.val) : other.val[k] = out.val[k]

(***************************************************************************)
(* C12: in derivative mode a likelihood with a hyperparameter returns      *)
(* exactly result_width sequences: one in EP mode, and in Laplace mode the *)
(* first result_width of the three sequences of width 3.                   *)
(***************************************************************************)
C12_DerivativeWidth ==
    (Called /\ FullBatch /\ args.der # "None" /\ lik \in {"Gauss", "Laplace"}
            /\ \/ args.inffunc = "EP" /\ args.nargout = 1
               \/ args.inffunc = "Laplace" /\ args.nargout \in 1..3)
        => /\ Returned
           /\ Len(out.val) = args.nargout
           /\ args.inffunc = "Laplace"
                 => out.val = Take(Again(args.y, 3).val, args.nargout)

(***************************************************************************)
(* C13: every sequence of a result has the length of mu, in every mode and *)
(* width, also in prediction mode of width 3 with s2 absent or all zero.   *)
(***************************************************************************)
C13_LengthOfMu ==
    (Returned /\ Present(args.y) /\ Len(args.y.v) = Len(args.mu.v)
              /\ (Present(args.s2) => Len(args.s2.v) = Len(args.mu.v)))
        => \A k \in 1..Len(out.val) : Len(out.val[k].v) = Len(args.mu.v)

(***************************************************************************)
(* C14: the first sequence of a Laplace-mode call, log p(y|f) at f = mu,   *)
(* is the first sequence of the prediction-mode call on the same (y, mu)   *)
(* with s2 absent; for the Laplace likelihood both are                     *)
(* -|y-mu|/b - log(2b).                                                    *)
(***************************************************************************)
C14_LaplaceModeIsExact ==
    (Returned /\ args.inffunc = "Laplace" /\ args.der = "None"
              /\ Present(args.y) /\ Len(args.y.v) = Len(args.mu.v))
        => LET exact == Evaluate(lik, hyp, args.y, args.mu, None,
                                 "None", "None", 1)
           IN  /\ exact.k = "ret"
               /\ out.val[1] = exact.val[1]
               /\ lik = "Laplace" => out.val[1] = ExactLogLik(args.y, args.mu)

(***************************************************************************)
(* C15: in EP mode of the Laplace likelihood every element takes exactly   *)
(* one of three branches: the Gaussian fallback iff sqrt(s2) > fac*sn, the *)
(* direct Laplace density iff sn > fac*sqrt(s2), the general case          *)
(* otherwise, so that equality on either boundary is the general case.  A  *)
(* call on one element returns exactly when the element is general: the    *)
(* fallbacks raise (C16).                                                  *)
(***************************************************************************)
LaplaceEPCall ==
    Called /\ lik = "Laplace" /\ args.inffunc = "EP" /\ Present(args.s2)

OnBoundary(sn, s2) == s2 >= sn * sn /\ s2 = fac * fac * sn * sn

C15_Routing ==
    LaplaceEPCall
        => LET sn == ExpTimes(1, hyp[1])
           IN  /\ \A i \in 1..Len(args.s2.v) :
                     LET s2 == args.s2.v[i]
                         r == LaplaceRoute(sn, s2)
                         likPeak == s2 > sn * sn /\ s2 > fac * fac * sn * sn
                         gauPeak == s2 < sn * sn /\ fac * fac * s2 < sn * sn
                     IN  /\ r \in {"idlik", "idgau", "id"}
                         /\ r = "idlik" <=> likPeak
                         /\ r = "idgau" <=> gauPeak
                         /\ r = "id" <=> ~likPeak /\ ~gauPeak
               /\ (FullBatch /\ Len(args.mu.v) = 1 /\ args.der = "None")
                     => (Returned <=> LaplaceRoute(sn, args.s2.v[1]) = "id")

C15_Witness ==
    /\ LaplaceEPCall /\ FullBatch /\ Len(args.mu.v) = 1 /\ args.der = "None"
    /\ OnBoundary(ExpTimes(1, hyp[1]), args.s2.v[1])
    /\ Returned

\* C15 as stated: equality belongs to the fallback branches
C15_EqualityFallsBack ==
    LaplaceEPCall
        => LET sn == ExpTimes(1, hyp[1])
           IN  \A i \in 1..Len(args.s2.v) :
                   LET s2 == args.s2.v[i]
                       r == LaplaceRoute(sn, s2)
                       likPeak == s2 >= sn * sn /\ s2 >= fac * fac * sn * sn
                       gauPeak == s2 <= sn * sn /\ fac * fac * s2 <= sn * sn
                   IN  /\ r = "idlik" <=> likPeak
                       /\ r = "idgau" <=> gauPeak
                       /\ r = "id" <=> ~likPeak /\ ~gauPeak

(***************************************************************************)
(* C16: in EP mode of the Laplace likelihood, for every element routed to  *)
(* a delta-peak fallback the call returns, in lZ, dlZ and d2lZ, that       *)
(* element's own value, first and second derivative of the fallback        *)
(* formula: the Gaussian of variance s2 at (y, mu) where the likelihood is *)
(* the delta peak, the Laplace density of scale sn at (y, mu) where the    *)
(* Gaussian is.                                                            *)
(***************************************************************************)
C16_FallbackValues ==
    (LaplaceEPCall /\ FullBatch /\ args.der = "None")
        => LET sn == ExpTimes(1, hyp[1])
               n == Len(args.mu.v)
               fallback == {i \in 1..n : LaplaceRoute(sn, args.s2.v[i]) # "id"}
           IN  fallback # {}
                 => /\ Returned
                    /\ \A i \in fallback :
                          LET d == args.y.v[i] - args.mu.v[i]
                              s2 == args.s2.v[i]
                              gaussian == LaplaceRoute(sn, s2) = "idlik"
                          IN  /\ out.val[1].v[i] =
                                   IF gaussian THEN GaussLogPdf(d, s2)
                                   ELSE LaplacePredictExact(d, sn)
                              /\ args.nargout >= 2
                                   => out.val[2].v[i] =
                                        IF gaussian THEN GaussD1(d, s2)
                                        ELSE T("sign(d)/b", <<SignOf(d), sn>>)
                              /\ args.nargout >= 3
                                   => out.val[3].v[i] =
                                        IF gaussian THEN GaussD2(s2) ELSE Val(0)

(***************************************************************************)
(* C17: in EP mode of the logistic likelihood, a call that returns blends  *)
(* the scale mixture with a tail term whose second derivative is 0 and     *)
(* whose first derivative is -sign(mu), except where label and mean agree  *)
(* (y*mu > 0): there the tail value becomes log(1 - exp(lZtail)) and the   *)
(* first derivative of the tail becomes 0.                                 *)
(***************************************************************************)
LogisticEPReturned ==
    /\ Returned /\ lik = "Logistic" /\ args.inffunc = "EP" /\ args.der = "None"
    /\ Present(args.y) /\ Len(args.y.v) = 1

\* the tail term's part of a blended value: its last leaf
TailLeaf(t) == t.a[Len(t.a)]

LabelAndMeanAgree == Labels(args.y).v[1] * args.mu.v[1] > 0

\* the blended lZ, given the value of the tail term
BlendedLZ(tail) ==
    LET mix == LogisticMixture(Map2(LAMBDA yy, m: yy, Labels(args.y), args.mu),
                               args.mu, args.s2)
        lam == T("lam", <<args.mu.v[1], args.s2.v[1]>>)
    IN  Map1(LAMBDA t: Comb("(1-lam)*lZ+lam*lZtail", <<lam, t, tail>>),
             LogisticLogExpAx(mix.val[1]))

TailValue == T("s2/2-|mu|", <<args.s2.v[1], args.mu.v[1]>>)

Greater10(z, c) == z[1] >= 0 \/ 100 * z[1] * z[1] < c * c * (1 + z[2])

Less10(z, c) == z[1] < 0 /\ 100 * z[1] * z[1] > c * c * (1 + z[2])

RegionOfZ(z) ==
    IF Greater10(z, -55) THEN "direct"
    ELSE IF Less10(z, -62) THEN "asymptotic"
    ELSE "blend"

\* the region whose formula a returned element was computed from
RegionOfTerm(t) ==
    IF t.f \in {"log(Phi(z))", "log(0.5*(1+erf(z/sqrt(2))))"} THEN "direct"
    ELSE IF t.f = "asym(z)" THEN "asymptotic"
    ELSE IF t.f \in {"(1-lam)*asym(z)+lam*log(Phi(z))",
                     "(1-lam)*lp+lam*log(0.5*(1+erf(z/sqrt(2))))(asym(z))"}
    THEN "blend"
    ELSE "none"

C18_Regions ==
    (Returned /\ lik \in {"Erf", "Laplace"})
        => /\ Len(out.val) = 1
           /\ out.val[1].sh = args.z.sh
           /\ \A i \in 1..Len(args.z.v) :
                 LET z == args.z.v[i]
                     t == out.val[1].v[i]
                 IN  /\ RegionOfTerm(t) = RegionOfZ(z)
                     /\ t.a = z
                     /\ ~(Greater10(z, -55) /\ Less10(z, -62))
                     /\ RegionOfTerm(ErfLogPhi(z)) = RegionOfTerm(LaplaceLogPhi(z))

\* an array with an element on the boundary zmax and one below zmin
C18_Witness ==
    /\ Returned
    /\ Len(args.z.v) = 2
    /\ args.z.v[1] = <<-11, 3, 0>>
    /\ args.z.v[2] = <<-7, 0, 0>>
    /\ RegionOfTerm(out.val[1].v[1]) = "blend"
    /\ RegionOfTerm(out.val[1].v[2]) = "asymptotic"

(***************************************************************************)
(* C19: every call of proceed terminates, and its nesting is bounded: an   *)
(* activation in prediction mode makes at most one nested call, an EP call *)
(* on the same instance; the calls an EP activation makes make no further  *)
(* calls, and one that is in prediction mode is an exact evaluation, with  *)
(* s2 absent; no nested activation is in prediction mode with s2 > 0; at   *)
(* most 3 activations are in progress at a time, for every variant.        *)
(***************************************************************************)
Approximating(f) == f.inffunc = "None" /\ Present(f.s2) /\ NormPositive(f.s2)

BoundedNesting ==
    /\ Len(stack) <= 3
    /\ \A k \in 1..Len(stack) :
          LET a == stack[k]
          IN  /\ k > 1 => ~Approximating(a.call)
              /\ a.call.inffunc = "None"
                    => /\ a.made + Len(a.todo) <= 1
                       /\ k < Len(stack)
                             => /\ stack[k + 1].call.inffunc = "EP"
                                /\ stack[k + 1].call.lik = a.call.lik
              /\ (a.call.inffunc = "EP" /\ k < Len(stack))
                    => /\ stack[k + 1].made = 0
                       /\ stack[k + 1].todo = <<>>
                       /\ stack[k + 1].call.inffunc = "None"
                             => IsNone(stack[k + 1].call.s2)
              /\ a.call.inffunc \in {"Laplace", "VB"}
                    => a.made = 0 /\ a.todo = <<>>

C19_Terminates ==
    /\ []BoundedNesting
    /\ (stack # <<>>) ~> (stack = <<>> /\ Called)

\* three activations in progress: prediction, its EP call, the call of that
C19_Witness ==
    /\ Len(stack) = 3
    /\ stack[1].call.inffunc = "None"
    /\ stack[2].call.inffunc = "EP"
    /\ stack[3].call.lik # stack[2].call.lik

====
